---- MODULE Spec2Model ----
(***************************************************************************)
(* Model of p3.cpp: a benchmark driver that locks process memory, selects  *)
(* one of five experiments by an integer argument, builds three timed      *)
(* thread handles (ThreadRT / ThreadNRT), starts them in order and joins   *)
(* them in order, printing each handle's elapsed wall-clock time.          *)
(*                                                                         *)
(* The main thread is the process `pc`; each handle's pthread is a process *)
(* with the states "none" -> "created" -> "running" -> "finished".         *)
(* Operating-system calls whose result the code reads (mlockall,           *)
(* pthread_create, pthread_join, pthread_getschedparam) return any of      *)
(* their possible results.  Thread ids and sched_getcpu() values appear    *)
(* only inside printed text and are not modelled.                          *)
(***************************************************************************)
EXTENDS Integers, Sequences, FiniteSets, TLC

VARIABLES
    argv,        \* command line after the program name: <<>> or <<string>>
    exp_id,      \* main's local exp_id
    pc,          \* main thread: "args","lock","dispatch","start","join","return","done","aborted"
    next,        \* index (1..3) of the handle whose Start()/Join() main calls next
    memLocked,   \* process memory-lock state (set by mlockall)
    lockCalls,   \* number of mlockall calls made
    apps,        \* the handles constructed by the selected branch, in declaration order
    start_time,  \* per handle: the start_time field ([tv_sec, tv_usec]) or NoTime
    end_time,    \* per handle: Join()'s local end_time, or NoTime
    calls,       \* the Start()/Join() calls main has made, in order: <<"Start", i>>, <<"Join", i>>
    finishOrder, \* the handles in the order in which their threads ended
    thread,      \* per handle: state of the pthread spawned by Start()
    runCount,    \* per handle: number of Run() (workload) invocations
    affinity,    \* per handle: set of CPUs its thread may run on
    diag,        \* per handle: scheduling diagnostic printed by the thread body
    sched,       \* per handle: the policy and priority its thread runs with, or NoSched
    attr_err,    \* per handle: whether a pthread_attr_set* call of Start() returned an error
    join_ret,    \* per handle: what pthread_join returned in Join(), or NoRet
    now,         \* wall clock, in microseconds
    reports,     \* "App #%d runtime" lines printed by Join(): <<app_id, elapsed in us>>
    out,         \* other stdout lines printed by main
    err,         \* stderr lines
    exception,   \* the uncaught std::runtime_error, or NoException
    exit_code    \* <<main's return value>>, or NoExit while main has not returned

vars == <<argv, exp_id, pc, next, memLocked, lockCalls, apps, start_time, end_time,
          calls, finishOrder, thread, runCount, affinity, diag, sched, attr_err,
          join_ret, now, reports, out, err, exception, exit_code>>

----------------------------------------------------------------------------
(* Bounds of the model *)

\* number of clock ticks explored
MaxTicks == 1
\* wall-clock time, in microseconds, at which the process starts
BootTime == 700000
\* microseconds added by one clock tick
TickStep == 600000
\* CPUs of the machine
NumCPUs == 4

(* Program constants *)

SET_CPU == FALSE
UsecPerSec == 1000000
NumApps == 3
SCHED_OTHER == 0
SCHED_FIFO == 1
SCHED_RR == 2

Handles == 1..NumApps
AllCPUs == 0..(NumCPUs - 1)
NoTime == [tv_sec |-> -1, tv_usec |-> -1]
NoException == <<>>
NoExit == <<>>
NoDiag == <<>>
NoSched == <<>>
NoRet == <<>>

\* Command lines explored: no argument, or one argument given as its characters.
ArgStrings == { <<"0">>, <<"1">>, <<"2">>, <<"3">>, <<"4">>, <<"5">>,
                <<"9", "9">>, <<"-", "1">>, <<"x">> }
Argvs == { <<>> } \cup { <<s>> : s \in ArgStrings }

MlockallResults == {0, -1}
PthreadCreateResults == {0, 11}     \* 0 or EAGAIN
PthreadJoinResults == {0, 3}        \* 0 or ESRCH
GetschedparamResults == {0, 3}
AttrSetResults == {0, 22}           \* 0 or EINVAL

----------------------------------------------------------------------------
(* Pure functions *)

IsDigit(c) == c \in {"0", "1", "2", "3", "4", "5", "6", "7", "8", "9"}

DigitVal(c) ==
    CASE c = "0" -> 0 [] c = "1" -> 1 [] c = "2" -> 2 [] c = "3" -> 3
      [] c = "4" -> 4 [] c = "5" -> 5 [] c = "6" -> 6 [] c = "7" -> 7
      [] c = "8" -> 8 [] c = "9" -> 9

RECURSIVE ParseDigits(_, _, _)
ParseDigits(s, i, acc) ==
    IF i > Len(s) \/ ~IsDigit(s[i]) THEN acc
    ELSE ParseDigits(s, i + 1, acc * 10 + DigitVal(s[i]))

RECURSIVE SkipSpace(_, _)
SkipSpace(s, i) ==
    IF i <= Len(s) /\ s[i] = " " THEN SkipSpace(s, i + 1) ELSE i

\* atoi that drops a leading minus sign
atoiUnsigned(s) ==
    LET i == SkipSpace(s, 1)
    IN  IF i <= Len(s) /\ s[i] \in {"-", "+"} THEN ParseDigits(s, i + 1, 0)
        ELSE ParseDigits(s, i, 0)

\* atoi: optional blanks, optional sign, then the longest run of digits.
atoi(s) ==
    LET i == SkipSpace(s, 1)
    IN  IF i <= Len(s) /\ s[i] = "-" THEN 0 - ParseDigits(s, i + 1, 0)
        ELSE IF i <= Len(s) /\ s[i] = "+" THEN ParseDigits(s, i + 1, 0)
        ELSE ParseDigits(s, i, 0)

strerror(e) ==
    CASE e = 1 -> "Operation not permitted"
      [] e = 3 -> "No such process"
      [] e = 11 -> "Resource temporarily unavailable"
      [] e = 12 -> "Cannot allocate memory"
      [] e = 22 -> "Invalid argument"
      [] OTHER -> "Unknown error"

runtime_error(what, e) == <<what, strerror(e)>>

gettimeofday == [tv_sec |-> now \div UsecPerSec, tv_usec |-> now % UsecPerSec]

\* elapsed time that makes a negative microsecond difference positive without
\* taking the second back
ElapsedTimeNoBorrow(st, en) ==
    LET seconds == en.tv_sec - st.tv_sec
        micros == en.tv_usec - st.tv_usec
    IN  seconds * UsecPerSec + (IF micros < 0 THEN micros + UsecPerSec ELSE micros)

\* seconds + micros * 1e-6, kept in whole microseconds
ElapsedTime(st, en) ==
    LET seconds == en.tv_sec - st.tv_sec
        micros == en.tv_usec - st.tv_usec
    IN  seconds * UsecPerSec + micros

setCPU(cpu_id) == {cpu_id}

\* policy and priority of a thread
SchedOf(policy, priority) == [policy |-> policy, priority |-> priority]

\* what the main thread runs with, and a thread created with default attributes
DefaultSched == SchedOf(SCHED_OTHER, 0)

\* the priorities a policy admits
ValidSched(sp) ==
    IF sp.policy \in {SCHED_FIFO, SCHED_RR} THEN sp.priority \in 1..99
                                             ELSE sp.priority = 0

\* the attribute object Start() hands to pthread_create: a pthread_attr_set* call
\* that fails leaves the default of pthread_attr_init in place
ThreadAttr(h, rpolicy, rparam, rinherit) ==
    [policy |-> IF rpolicy = 0 THEN h.policy_ ELSE SCHED_OTHER,
     priority |-> IF rparam = 0 THEN h.priority_ ELSE 0,
     explicit |-> rinherit = 0]

\* what a thread created with the attribute object runs with
EffectiveSched(attr) ==
    IF attr.explicit THEN SchedOf(attr.policy, attr.priority) ELSE DefaultSched

\* the results pthread_create can have for the attribute object
CreateResultsFor(attr) ==
    IF attr.explicit /\ ~ValidSched(SchedOf(attr.policy, attr.priority))
      THEN {22}
      ELSE PthreadCreateResults

\* the words RunThreadRT prints for a policy
PolicyName(policy) ==
    IF policy = SCHED_FIFO THEN "SCHED_FIFO "
    ELSE IF policy = SCHED_RR THEN "SCHED_RR "
    ELSE "Other policy "

AppTypeX(app_id, priority, policy) ==
    [app_id_ |-> app_id, kind |-> "RT", priority_ |-> priority, policy_ |-> policy]

AppTypeY(app_id) == [app_id_ |-> app_id, kind |-> "NRT"]

\* the branches with exp_id 4 declaring what the branch with exp_id 0 declares
ExperimentFourAsZero(e) ==
    CASE e \in {0, 1, 4} -> << AppTypeX(1, 80, SCHED_FIFO), AppTypeY(2), AppTypeY(3) >>
      [] e = 2 -> << AppTypeX(1, 80, SCHED_FIFO), AppTypeX(2, 80, SCHED_FIFO), AppTypeY(3) >>
      [] e = 3 -> << AppTypeX(1, 80, SCHED_RR), AppTypeX(2, 80, SCHED_RR), AppTypeY(3) >>

\* The handles each branch of main declares, in declaration order.
Experiment(e) ==
    CASE e = 0 -> << AppTypeX(1, 80, SCHED_FIFO), AppTypeY(2), AppTypeY(3) >>
      [] e = 1 -> << AppTypeX(1, 80, SCHED_FIFO), AppTypeY(2), AppTypeY(3) >>
      [] e = 2 -> << AppTypeX(1, 80, SCHED_FIFO), AppTypeX(2, 80, SCHED_FIFO), AppTypeY(3) >>
      [] e = 3 -> << AppTypeX(1, 80, SCHED_RR), AppTypeX(2, 80, SCHED_RR), AppTypeY(3) >>
      [] e = 4 -> << AppTypeX(1, 80, SCHED_FIFO), AppTypeX(2, 80, SCHED_FIFO), AppTypeY(3) >>

\* The line each branch prints first.
Description(e) ==
    CASE e = 0 -> "Experiment 1: One CannyP3 APP (RT) and Two any-type APPs (NRT), All running on CPU=1"
      [] e = 1 -> "Experiment 2: Same workload as 1, but freely run on available CPUs"
      [] e = 2 -> "Experiment 3: Two any-type APPs (same priority, SCHED_FIFO) in RT and One any-type APP (NRT), All running on CPU=1"
      [] e = 3 -> "Experiment 4: Two any-type APPs (same priority, SCHED_RR) in RT and One any-type APP (NRT), All running on CPU=1"
      [] e = 4 -> "Experiment 5: Same workload as 3, but freely run on available CPUs"

NotFound == "ERROR: exp_id NOT FOUND"
\* the warning, as its text and the digits that end it
Warning == <<"WARNING: default exp_id=", <<"0">> >>

----------------------------------------------------------------------------
(* Initial state: the process has been exec'ed with some command line *)

Init ==
    /\ argv \in Argvs
    /\ exp_id = 4
    /\ pc = "args"
    /\ next = 0
    /\ memLocked = FALSE
    /\ lockCalls = 0
    /\ apps = <<>>
    /\ start_time = [i \in Handles |-> NoTime]
    /\ end_time = [i \in Handles |-> NoTime]
    /\ calls = <<>>
    /\ finishOrder = <<>>
    /\ thread = [i \in Handles |-> "none"]
    /\ runCount = [i \in Handles |-> 0]
    /\ affinity = [i \in Handles |-> {}]
    /\ diag = [i \in Handles |-> NoDiag]
    /\ sched = [i \in Handles |-> NoSched]
    /\ attr_err = [i \in Handles |-> FALSE]
    /\ join_ret = [i \in Handles |-> NoRet]
    /\ now = BootTime
    /\ reports = <<>>
    /\ out = <<>>
    /\ err = <<>>
    /\ exception = NoException
    /\ exit_code = NoExit

Alive == pc \notin {"done", "aborted"}

\* number of Start() / Join() calls made on handle i
startCalls(i) == Cardinality({k \in DOMAIN calls : calls[k] = <<"Start", i>>})
joinCalls(i) == Cardinality({k \in DOMAIN calls : calls[k] = <<"Join", i>>})

hvars == <<start_time, end_time, calls, finishOrder, thread, runCount, affinity, diag,
           sched, attr_err, join_ret>>

----------------------------------------------------------------------------
(* The main thread *)

\* main running the scenario its warning names when there is no argument
MainArgsDefaultZero ==
    /\ pc = "args"
    /\ IF Len(argv) + 1 < 2
         THEN /\ err' = Append(err, Warning)
              /\ exp_id' = 0
         ELSE /\ exp_id' = atoi(argv[1])
              /\ err' = err
    /\ pc' = "lock"
    /\ UNCHANGED <<argv, next, memLocked, lockCalls, apps, hvars, now, reports, out,
                   exception, exit_code>>

\* main, lines 195-200: default exp_id, warning or atoi(argv[1])
MainArgs ==
    /\ pc = "args"
    /\ IF Len(argv) + 1 < 2
         THEN /\ err' = Append(err, Warning)
              /\ exp_id' = exp_id
         ELSE /\ exp_id' = atoi(argv[1])
              /\ err' = err
    /\ pc' = "lock"
    /\ UNCHANGED <<argv, next, memLocked, lockCalls, apps, hvars, now, reports, out,
                   exception, exit_code>>

\* LockMemory that does not look at the result of mlockall
LockMemoryUnchecked ==
    /\ pc = "lock"
    /\ \E ret \in MlockallResults :
         /\ lockCalls' = lockCalls + 1
         /\ memLocked' = (ret = 0)
         /\ pc' = "dispatch"
    /\ UNCHANGED <<argv, exp_id, next, apps, hvars, now, reports, out, err, exception,
                   exit_code>>

\* LockMemory(), called at line 202; an exception leaves main uncaught
LockMemory ==
    /\ pc = "lock"
    /\ \E ret \in MlockallResults, errno \in {1, 12} :
         /\ lockCalls' = lockCalls + 1
         /\ IF ret # 0
              THEN /\ exception' = runtime_error("mlockall failed: ", errno)
                   /\ pc' = "aborted"
                   /\ memLocked' = memLocked
              ELSE /\ memLocked' = TRUE
                   /\ pc' = "dispatch"
                   /\ exception' = exception
    /\ UNCHANGED <<argv, exp_id, next, apps, hvars, now, reports, out, err, exit_code>>

\* main, the if / else-if chain on exp_id up to the handle declarations
MainDispatch ==
    /\ pc = "dispatch"
    /\ IF exp_id \in {0, 1, 2, 3, 4}
         THEN /\ out' = Append(out, Description(exp_id))
              /\ apps' = Experiment(exp_id)
              /\ pc' = "start"
              /\ next' = 1
         ELSE /\ out' = Append(out, NotFound)
              /\ apps' = apps
              /\ pc' = "return"
              /\ next' = next
    /\ UNCHANGED <<argv, exp_id, memLocked, lockCalls, hvars, now, reports, err,
                   exception, exit_code>>

\* main joining each handle right after starting it
AfterStartJoinAtOnce(i) == pc' = "join" /\ next' = i

\* where main goes after appN.Start() returns
AfterStart(i) ==
    IF i < NumApps THEN /\ pc' = "start" /\ next' = i + 1
                   ELSE /\ pc' = "join" /\ next' = 1

\* main leaving out the last Join()
AfterJoinSkipLast(i) ==
    IF i < NumApps - 1 THEN /\ pc' = "join" /\ next' = i + 1
                       ELSE /\ pc' = "return" /\ next' = next

\* where main goes after appN.Join() returns
AfterJoin(i) ==
    IF i < NumApps THEN /\ pc' = "join" /\ next' = i + 1
                   ELSE /\ pc' = "return" /\ next' = next

\* ThreadRT::Start
StartRT(i) ==
    /\ pc = "start" /\ next = i /\ apps[i].kind = "RT"
    /\ calls' = Append(calls, <<"Start", i>>)
    /\ start_time' = [start_time EXCEPT ![i] = gettimeofday]
    /\ \E rpolicy, rparam, rinherit \in AttrSetResults :
         LET thread_attr == ThreadAttr(apps[i], rpolicy, rparam, rinherit) IN
         /\ attr_err' = [attr_err EXCEPT ![i] = rpolicy # 0 \/ rparam # 0 \/ rinherit # 0]
         /\ \E ret \in CreateResultsFor(thread_attr) :
              IF ret # 0
                THEN /\ exception' = runtime_error("pthread_create failed: ", ret)
                     /\ pc' = "aborted"
                     /\ next' = next
                     /\ UNCHANGED <<thread, affinity, sched>>
                ELSE /\ thread' = [thread EXCEPT ![i] = "created"]
                     /\ affinity' = [affinity EXCEPT ![i] = AllCPUs]
                     /\ sched' = [sched EXCEPT ![i] = EffectiveSched(thread_attr)]
                     /\ AfterStart(i)
                     /\ exception' = exception
    /\ UNCHANGED <<argv, exp_id, memLocked, lockCalls, apps, end_time, finishOrder,
                   runCount, diag, join_ret, now, reports, out, err, exit_code>>

\* ThreadNRT::Start with one start_time shared by all handles
StartNRTSharedTimer(i) ==
    /\ pc = "start" /\ next = i /\ apps[i].kind = "NRT"
    /\ calls' = Append(calls, <<"Start", i>>)
    /\ start_time' = [j \in Handles |-> gettimeofday]
    /\ \E ret \in PthreadCreateResults :
         IF ret # 0
           THEN /\ exception' = runtime_error("pthread_create failed: ", ret)
                /\ pc' = "aborted"
                /\ next' = next
                /\ UNCHANGED <<thread, affinity, sched>>
           ELSE /\ thread' = [thread EXCEPT ![i] = "created"]
                /\ affinity' = [affinity EXCEPT ![i] = AllCPUs]
                /\ sched' = [sched EXCEPT ![i] = DefaultSched]
                /\ AfterStart(i)
                /\ exception' = exception
    /\ UNCHANGED <<argv, exp_id, memLocked, lockCalls, apps, end_time, finishOrder,
                   runCount, diag, attr_err, join_ret, now, reports, out, err, exit_code>>

\* ThreadNRT::Start that waits for the thread of the handle before it to end
StartNRTAfterPrevious(i) ==
    /\ pc = "start" /\ next = i /\ apps[i].kind = "NRT"
    /\ i > 1 => thread[i - 1] = "finished"
    /\ calls' = Append(calls, <<"Start", i>>)
    /\ start_time' = [start_time EXCEPT ![i] = gettimeofday]
    /\ \E ret \in PthreadCreateResults :
         IF ret # 0
           THEN /\ exception' = runtime_error("pthread_create failed: ", ret)
                /\ pc' = "aborted"
                /\ next' = next
                /\ UNCHANGED <<thread, affinity, sched>>
           ELSE /\ thread' = [thread EXCEPT ![i] = "created"]
                /\ affinity' = [affinity EXCEPT ![i] = AllCPUs]
                /\ sched' = [sched EXCEPT ![i] = DefaultSched]
                /\ AfterStart(i)
                /\ exception' = exception
    /\ UNCHANGED <<argv, exp_id, memLocked, lockCalls, apps, end_time, finishOrder,
                   runCount, diag, attr_err, join_ret, now, reports, out, err, exit_code>>

\* ThreadNRT::Start that does not look at the result of pthread_create
StartNRTUnchecked(i) ==
    /\ pc = "start" /\ next = i /\ apps[i].kind = "NRT"
    /\ calls' = Append(calls, <<"Start", i>>)
    /\ start_time' = [start_time EXCEPT ![i] = gettimeofday]
    /\ \E ret \in PthreadCreateResults :
         IF ret # 0
           THEN UNCHANGED <<thread, affinity, sched>>
           ELSE /\ thread' = [thread EXCEPT ![i] = "created"]
                /\ affinity' = [affinity EXCEPT ![i] = AllCPUs]
                /\ sched' = [sched EXCEPT ![i] = DefaultSched]
    /\ AfterStart(i)
    /\ UNCHANGED <<argv, exp_id, memLocked, lockCalls, apps, end_time, finishOrder,
                   runCount, diag, attr_err, join_ret, now, reports, out, err, exception,
                   exit_code>>

\* ThreadNRT::Start
StartNRT(i) ==
    /\ pc = "start" /\ next = i /\ apps[i].kind = "NRT"
    /\ calls' = Append(calls, <<"Start", i>>)
    /\ start_time' = [start_time EXCEPT ![i] = gettimeofday]
    /\ \E ret \in PthreadCreateResults :
         IF ret # 0
           THEN /\ exception' = runtime_error("pthread_create failed: ", ret)
                /\ pc' = "aborted"
                /\ next' = next
                /\ UNCHANGED <<thread, affinity, sched>>
           ELSE /\ thread' = [thread EXCEPT ![i] = "created"]
                /\ affinity' = [affinity EXCEPT ![i] = AllCPUs]
                /\ sched' = [sched EXCEPT ![i] = DefaultSched]
                /\ AfterStart(i)
                /\ exception' = exception
    /\ UNCHANGED <<argv, exp_id, memLocked, lockCalls, apps, end_time, finishOrder,
                   runCount, diag, attr_err, join_ret, now, reports, out, err, exit_code>>

\* ThreadRT::Join: pthread_join returns 0 once the thread has ended, or an error
JoinRT(i) ==
    /\ pc = "join" /\ next = i /\ apps[i].kind = "RT"
    /\ \E ret \in PthreadJoinResults :
         /\ ret = 0 => thread[i] = "finished"
         /\ calls' = Append(calls, <<"Join", i>>)
         /\ join_ret' = [join_ret EXCEPT ![i] = <<ret>>]
         /\ IF ret # 0
              THEN /\ exception' = runtime_error("pthread_join failed: ", ret)
                   /\ pc' = "aborted"
                   /\ next' = next
                   /\ UNCHANGED <<end_time, reports>>
              ELSE /\ end_time' = [end_time EXCEPT ![i] = gettimeofday]
                   /\ reports' = Append(reports,
                          <<apps[i].app_id_, ElapsedTime(start_time[i], gettimeofday)>>)
                   /\ AfterJoin(i)
                   /\ exception' = exception
    /\ UNCHANGED <<argv, exp_id, memLocked, lockCalls, apps, start_time, finishOrder,
                   thread, runCount, affinity, diag, sched, attr_err, now, out, err,
                   exit_code>>

\* ThreadNRT::Join: the result of pthread_join is not looked at
JoinNRT(i) ==
    /\ pc = "join" /\ next = i /\ apps[i].kind = "NRT"
    /\ \E ret \in PthreadJoinResults :
         /\ ret = 0 => thread[i] = "finished"
         /\ calls' = Append(calls, <<"Join", i>>)
         /\ join_ret' = [join_ret EXCEPT ![i] = <<ret>>]
         /\ end_time' = [end_time EXCEPT ![i] = gettimeofday]
         /\ reports' = Append(reports,
                <<apps[i].app_id_, ElapsedTime(start_time[i], gettimeofday)>>)
         /\ AfterJoin(i)
    /\ UNCHANGED <<argv, exp_id, memLocked, lockCalls, apps, start_time, finishOrder,
                   thread, runCount, affinity, diag, sched, attr_err, now, out, err,
                   exception, exit_code>>

\* main returning its scenario number
MainReturnExpId ==
    /\ pc = "return"
    /\ pc' = "done"
    /\ exit_code' = <<exp_id>>
    /\ UNCHANGED <<argv, exp_id, next, memLocked, lockCalls, apps, hvars, now, reports,
                   out, err, exception>>

\* main, line 283
MainReturn ==
    /\ pc = "return"
    /\ pc' = "done"
    /\ exit_code' = <<0>>
    /\ UNCHANGED <<argv, exp_id, next, memLocked, lockCalls, apps, hvars, now, reports,
                   out, err, exception>>

----------------------------------------------------------------------------
(* The spawned threads *)

\* ThreadRT::RunThreadRT up to the call of BusyCal() inside Run()
RunThreadRT(i) ==
    /\ Alive /\ thread[i] = "created" /\ apps[i].kind = "RT"
    /\ affinity' = [affinity EXCEPT ![i] = IF SET_CPU THEN setCPU(1) ELSE @]
    /\ \E ret \in GetschedparamResults :
         diag' = [diag EXCEPT ![i] =
                    IF ret = 0
                      THEN <<"Scheduling policy: ", PolicyName(sched[i].policy),
                             "with priority", sched[i].priority>>
                      ELSE <<"Failed to get scheduling parameters">>]
    /\ runCount' = [runCount EXCEPT ![i] = @ + 1]
    /\ thread' = [thread EXCEPT ![i] = "running"]
    /\ UNCHANGED <<argv, exp_id, pc, next, memLocked, lockCalls, apps, start_time,
                   end_time, calls, finishOrder, sched, attr_err, join_ret, now, reports,
                   out, err, exception, exit_code>>

\* ThreadNRT::RunThreadNRT that does not call Run()
RunThreadNRTSkipsRun(i) ==
    /\ Alive /\ thread[i] = "created" /\ apps[i].kind = "NRT"
    /\ affinity' = [affinity EXCEPT ![i] = IF SET_CPU THEN setCPU(1) ELSE @]
    /\ thread' = [thread EXCEPT ![i] = "running"]
    /\ UNCHANGED <<argv, exp_id, pc, next, memLocked, lockCalls, apps, start_time,
                   end_time, calls, finishOrder, runCount, diag, sched, attr_err,
                   join_ret, now, reports, out, err, exception, exit_code>>

\* ThreadNRT::RunThreadNRT up to the call of BusyCal() inside Run()
RunThreadNRT(i) ==
    /\ Alive /\ thread[i] = "created" /\ apps[i].kind = "NRT"
    /\ affinity' = [affinity EXCEPT ![i] = IF SET_CPU THEN setCPU(1) ELSE @]
    /\ runCount' = [runCount EXCEPT ![i] = @ + 1]
    /\ thread' = [thread EXCEPT ![i] = "running"]
    /\ UNCHANGED <<argv, exp_id, pc, next, memLocked, lockCalls, apps, start_time,
                   end_time, calls, finishOrder, diag, sched, attr_err, join_ret, now,
                   reports, out, err, exception, exit_code>>

\* BusyCal() returns, Run() returns, the thread function returns NULL
BusyCalReturn(i) ==
    /\ Alive /\ thread[i] = "running"
    /\ thread' = [thread EXCEPT ![i] = "finished"]
    /\ finishOrder' = Append(finishOrder, i)
    /\ UNCHANGED <<argv, exp_id, pc, next, memLocked, lockCalls, apps, start_time,
                   end_time, calls, runCount, affinity, diag, sched, attr_err, join_ret,
                   now, reports, out, err, exception, exit_code>>

\* wall-clock time passes while the process runs
Tick ==
    /\ Alive
    /\ now < BootTime + MaxTicks * TickStep
    /\ now' = now + TickStep
    /\ UNCHANGED <<argv, exp_id, pc, next, memLocked, lockCalls, apps, hvars, reports,
                   out, err, exception, exit_code>>

Next ==
    \/ MainArgs
    \/ LockMemory
    \/ MainDispatch
    \/ \E i \in Handles : StartRT(i)
    \/ \E i \in Handles : StartNRT(i)
    \/ \E i \in Handles : JoinRT(i)
    \/ \E i \in Handles : JoinNRT(i)
    \/ MainReturn
    \/ \E i \in Handles : RunThreadRT(i)
    \/ \E i \in Handles : RunThreadNRT(i)
    \/ \E i \in Handles : BusyCalReturn(i)
    \/ Tick

Spec == Init /\ [][Next]_vars

\* the steps of the main thread, and of the thread of handle i
Main ==
    \/ MainArgs
    \/ LockMemory
    \/ MainDispatch
    \/ \E i \in Handles : StartRT(i) \/ StartNRT(i) \/ JoinRT(i) \/ JoinNRT(i)
    \/ MainReturn

ThreadStep(i) == RunThreadRT(i) \/ RunThreadNRT(i) \/ BusyCalReturn(i)

\* a step in which pthread_join returns an error
JoinErrorStep == \E i \in Handles : join_ret[i] = NoRet /\ join_ret'[i] \notin {NoRet, <<0>>}

\* The scheduler lets every thread that can run take its next step, and every
\* call of BusyCal() returns.  Nothing makes pthread_join return an error: main
\* blocked in a Join() may stay blocked for as long as the thread runs.
FairSpec ==
    /\ Init /\ [][Next]_vars
    /\ WF_vars(Main /\ ~JoinErrorStep)
    /\ \A i \in Handles : WF_vars(ThreadStep(i))

----------------------------------------------------------------------------
(* Properties *)

IsPrefix(s, t) == Len(s) <= Len(t) /\ \A k \in DOMAIN s : s[k] = t[k]

\* the one argument of the command line, or <<>> when there is none
Arg == IF argv = <<>> THEN <<>> ELSE argv[1]
ValidArgs == { <<"0">>, <<"1">>, <<"2">>, <<"3">>, <<"4">> }
OutOfRangeArgs == { <<"5">>, <<"9", "9">>, <<"-", "1">> }

Terminated == pc \in {"done", "aborted"}
Constructed == 1..Len(apps)
ReportedIds == [k \in DOMAIN reports |-> reports[k][1]]
CallOrder == << <<"Start", 1>>, <<"Start", 2>>, <<"Start", 3>>,
                <<"Join", 1>>, <<"Join", 2>>, <<"Join", 3>> >>
CreationFailed == exception # NoException /\ exception[1] = "pthread_create failed: "
JoinFailed == exception # NoException /\ exception[1] = "pthread_join failed: "
LockFailed == exception # NoException /\ exception[1] = "mlockall failed: "

\* C1: in a run of a valid scenario all three handles exist, with no thread
\* started, before the first Start(); the calls main makes are, in this order,
\* Start 1, 2, 3 and then Join 1, 2, 3 (a run that an error ends makes a prefix
\* of them); the elapsed-time reports come out as app 1, app 2, app 3 whatever
\* the order in which the threads end.
C1_StartAllThenJoinInOrder ==
    /\ IsPrefix(calls, CallOrder)
    /\ IsPrefix(ReportedIds, <<1, 2, 3>>)
    /\ (pc = "start" /\ next = 1) =>
          /\ Len(apps) = NumApps
          /\ calls = <<>>
          /\ \A i \in Handles : thread[i] = "none" /\ apps[i].app_id_ = i
    /\ (\E i \in Handles : thread[i] # "none") => Len(apps) = NumApps
    /\ (exp_id \in 0..4 /\ pc \in {"return", "done"}) =>
          /\ calls = CallOrder
          /\ ReportedIds = <<1, 2, 3>>

\* C1 witness: the threads ended in the order 3, 2, 1 and the reports are 1, 2, 3
C1_Witness ==
    /\ pc = "done"
    /\ finishOrder = <<3, 2, 1>>
    /\ ReportedIds = <<1, 2, 3>>

\* C2 as stated: whenever the process has ended, every constructed handle has
\* been started exactly once and joined exactly once, and there are as many
\* Join() calls as Start() calls.
C2_Original ==
    Terminated =>
        /\ \A i \in Constructed : startCalls(i) = 1 /\ joinCalls(i) = 1
        /\ Cardinality({k \in DOMAIN calls : calls[k][1] = "Join"})
             = Cardinality({k \in DOMAIN calls : calls[k][1] = "Start"})

\* C2 amended: when main returns, every constructed handle has been started
\* exactly once and joined exactly once and the Join() calls are as many as the
\* Start() calls; in every run, ended by an error or not, no handle is started
\* or joined twice and a Join() on a handle comes after the Start() on it.
C2_StartedAndJoinedOnceOnReturn ==
    /\ pc = "done" =>
          /\ \A i \in Constructed : startCalls(i) = 1 /\ joinCalls(i) = 1
          /\ Cardinality({k \in DOMAIN calls : calls[k][1] = "Join"})
               = Cardinality({k \in DOMAIN calls : calls[k][1] = "Start"})
    /\ \A i \in Handles :
          /\ startCalls(i) <= 1
          /\ joinCalls(i) <= startCalls(i)
          /\ \A k \in DOMAIN calls :
                calls[k] = <<"Join", i>> => \E j \in 1..(k - 1) : calls[j] = <<"Start", i>>
          /\ startCalls(i) = 1 => i \in Constructed

\* C2 witness: main has returned from a scenario with three handles
C2_Witness ==
    /\ pc = "done"
    /\ Len(apps) = NumApps
    /\ Len(calls) = 2 * NumApps

\* C3 as stated: the end timestamp and the report of a handle exist only when
\* the thread of that handle has ended, and while a thread is still running
\* there is no report for its handle or for any later one.
C3_JoinWaitsForThread ==
    \A i \in Handles :
        /\ end_time[i] # NoTime => thread[i] = "finished"
        /\ thread[i] \in {"created", "running"} => Len(reports) < i

\* C4: mlockall is called at most once, and before any Start(); once main is
\* past it the lock state is what that one call left and the call is not
\* repeated; when the lock is denied the run ends with the uncaught error,
\* with no handle, no thread and no scenario description.
C4_LockOnceBeforeAnyStart ==
    /\ lockCalls <= 1
    /\ pc \in {"args", "lock"} =>
          /\ lockCalls = 0 /\ ~memLocked
          /\ calls = <<>> /\ \A i \in Handles : thread[i] = "none"
    /\ pc \notin {"args", "lock"} =>
          /\ lockCalls = 1
          /\ memLocked <=> ~LockFailed
    /\ (calls # <<>> \/ \E i \in Handles : thread[i] # "none") => memLocked
    /\ ~memLocked /\ lockCalls = 1 =>
          /\ pc = "aborted" /\ LockFailed
          /\ apps = <<>> /\ calls = <<>> /\ out = <<>> /\ reports = <<>>
          /\ \A i \in Handles : thread[i] = "none" /\ runCount[i] = 0

\* C4 witness: the lock was taken once and all three threads were then started
C4_Witness ==
    /\ memLocked /\ lockCalls = 1
    /\ \A i \in Handles : thread[i] = "running"

\* C5 as stated: a run with an identifier outside 0..4 constructs no handle,
\* spawns no thread, prints "not found" and ends with exit code 0.
C5_Original ==
    (Arg \in OutOfRangeArgs /\ Terminated) =>
        /\ apps = <<>>
        /\ \A i \in Handles : thread[i] = "none"
        /\ out = <<NotFound>>
        /\ exit_code = <<0>>

\* C5 amended: a run with an identifier outside 0..4 never constructs a handle
\* or spawns a thread; when the memory lock is granted it prints "not found"
\* and nothing else and main returns 0; when the lock is denied it ends with the
\* uncaught error before anything is printed.
C5_OutOfRangeRunsNothing ==
    Arg \in OutOfRangeArgs =>
        /\ apps = <<>> /\ calls = <<>> /\ reports = <<>>
        /\ \A i \in Handles : thread[i] = "none" /\ runCount[i] = 0
        /\ pc \notin {"start", "join"}
        /\ (Terminated /\ memLocked) =>
              pc = "done" /\ out = <<NotFound>> /\ exit_code = <<0>>
        /\ (Terminated /\ ~memLocked) =>
              pc = "aborted" /\ LockFailed /\ out = <<>> /\ exit_code = NoExit
        /\ pc \in {"return", "done"} => out = <<NotFound>>

\* C5 witness: the run with argument 99 has printed "not found" and returned 0
C5_Witness ==
    /\ Arg = <<"9", "9">>
    /\ pc = "done"
    /\ out = <<NotFound>>
    /\ exit_code = <<0>>

\* C6 as stated: when the run of scenario 0 has returned, exactly three threads
\* were spawned: app 1 as a RealTime thread (FIFO, priority 80) pinned to CPU 1
\* and apps 2 and 3 as Standard threads, and there are exactly three reports,
\* one for each of the app ids 1, 2, 3.
C6_ScenarioZero ==
    (Arg = <<"0">> /\ pc = "done") =>
        /\ Len(apps) = 3
        /\ \A i \in Handles : thread[i] # "none" /\ startCalls(i) = 1
        /\ apps[1] = [app_id_ |-> 1, kind |-> "RT", priority_ |-> 80, policy_ |-> SCHED_FIFO]
        /\ affinity[1] = {1}
        /\ apps[2] = [app_id_ |-> 2, kind |-> "NRT"]
        /\ apps[3] = [app_id_ |-> 3, kind |-> "NRT"]
        /\ Len(reports) = 3
        /\ {ReportedIds[k] : k \in DOMAIN reports} = {1, 2, 3}

\* C7 as stated: a thread that has reached its workload is pinned to CPU 1 in
\* the scenarios 0, 2 and 3 and is not pinned in the scenarios 1 and 4.
C7_AffinityFollowsCatalog ==
    \A i \in Handles :
        thread[i] \in {"running", "finished"} =>
            IF exp_id \in {0, 2, 3} THEN affinity[i] = {1}
                                    ELSE affinity[i] = AllCPUs

\* two lists of handles are the same mix: as many handles, and handle by handle
\* the same app id, the same kind and, for RealTime, the same policy and priority
SameMix(a, b) ==
    /\ Len(a) = Len(b)
    /\ \A k \in DOMAIN a :
          /\ a[k].app_id_ = b[k].app_id_
          /\ a[k].kind = b[k].kind
          /\ a[k].kind = "RT" =>
                a[k].policy_ = b[k].policy_ /\ a[k].priority_ = b[k].priority_

\* C8 as stated: the handles the run of scenario 4 constructs are the mix that
\* scenario 0 constructs.
C8_Original ==
    (Arg = <<"4">> /\ apps # <<>>) => SameMix(apps, Experiment(0))

\* C8 amended: the handles the run of scenario 4 constructs are the mix that
\* scenario 2 constructs (two RealTime FIFO/80 handles and one Standard handle),
\* and the handles the run of scenario 0 constructs are the mix that scenario
\* 1 constructs (one RealTime FIFO/80 handle and two Standard handles).
C8_FourMatchesTwo ==
    /\ (Arg = <<"4">> /\ apps # <<>>) => SameMix(apps, Experiment(2))
    /\ (Arg = <<"2">> /\ apps # <<>>) => SameMix(apps, Experiment(4))
    /\ (Arg = <<"0">> /\ apps # <<>>) => SameMix(apps, Experiment(1))
    /\ (Arg = <<"1">> /\ apps # <<>>) => SameMix(apps, Experiment(0))

\* C8 witness: the run of scenario 4 has constructed its handles and started them
C8_Witness ==
    /\ Arg = <<"4">>
    /\ Len(apps) = NumApps
    /\ apps[2].kind = "RT"
    /\ \A i \in Handles : thread[i] # "none"

\* a timestamp in microseconds
Micros(t) == t.tv_sec * UsecPerSec + t.tv_usec

\* C9: for every report, of a RealTime or a Standard handle, the end timestamp
\* is not before the start timestamp, and the elapsed value reported is not
\* negative and is the difference of the two timestamps in microseconds; a
\* handle has its start timestamp as soon as Start() was called on it, so
\* before its thread exists.
C9_ElapsedIsNonNegativeDifference ==
    /\ \A k \in DOMAIN reports :
          LET i == reports[k][1] IN
            /\ start_time[i] # NoTime /\ end_time[i] # NoTime
            /\ Micros(end_time[i]) >= Micros(start_time[i])
            /\ reports[k][2] >= 0
            /\ reports[k][2] = Micros(end_time[i]) - Micros(start_time[i])
    /\ \A i \in Handles :
          /\ thread[i] # "none" => start_time[i] # NoTime
          /\ end_time[i] # NoTime => \E k \in DOMAIN reports : reports[k][1] = i
          /\ start_time[i] # NoTime =>
                start_time[i].tv_usec \in 0..(UsecPerSec - 1) /\ start_time[i].tv_sec >= 0

\* C9 witness: a RealTime and a Standard handle were both reported with an end
\* timestamp whose microsecond part is smaller than that of the start timestamp
C9_Witness ==
    \E i, j \in Handles :
        /\ Len(apps) = NumApps
        /\ apps[i].kind = "RT" /\ apps[j].kind = "NRT"
        /\ end_time[i] # NoTime /\ end_time[i].tv_usec < start_time[i].tv_usec
        /\ end_time[j] # NoTime /\ end_time[j].tv_usec < start_time[j].tv_usec
        /\ \E k \in DOMAIN reports : reports[k][1] = j /\ reports[k][2] > 0

\* C10: when pthread_create fails in a Start(), the run ends there with the
\* uncaught "pthread_create failed" error that carries strerror of the result;
\* the handle has no thread and its workload never runs, no later handle is
\* started, nothing is joined and nothing is reported.  A handle on which
\* Start() was called and that has no thread is always such a handle.
C10_CreationFailureAbortsScenario ==
    /\ CreationFailed =>
          LET k == Len(calls)
              i == calls[k][2]
          IN  /\ k >= 1 /\ calls[k] = <<"Start", i>>
              /\ pc = "aborted" /\ exit_code = NoExit
              /\ exception[2] \in {strerror(e) : e \in (PthreadCreateResults \cup {22}) \ {0}}
              /\ \A j \in Handles : j >= i => thread[j] = "none" /\ runCount[j] = 0
              /\ \A j \in Handles : j > i => startCalls(j) = 0
              /\ \A j \in Handles : joinCalls(j) = 0
              /\ reports = <<>>
    /\ \A i \in Handles :
          (startCalls(i) = 1 /\ thread[i] = "none") =>
              /\ CreationFailed /\ pc = "aborted"
              /\ calls[Len(calls)] = <<"Start", i>>

\* C10 witness: the first thread is running its workload when the creation of
\* the second, a Standard thread, fails
C10_Witness ==
    /\ CreationFailed
    /\ calls = << <<"Start", 1>>, <<"Start", 2>> >>
    /\ apps[2].kind = "NRT"
    /\ thread[1] = "running" /\ thread[2] = "none"

\* C11 as stated: whenever pthread_join returned an error in the Join() of a
\* handle, RealTime or Standard, the run has ended with the "pthread_join failed"
\* error and that handle has no end timestamp and no report; a report exists
\* only for a handle whose pthread_join returned 0.
C11_FailedJoinRaises ==
    \A i \in Handles :
        /\ (join_ret[i] # NoRet /\ join_ret[i] # <<0>>) =>
              /\ JoinFailed /\ pc = "aborted"
              /\ end_time[i] = NoTime
              /\ \A k \in DOMAIN reports : reports[k][1] # i
        /\ (\E k \in DOMAIN reports : reports[k][1] = i) => join_ret[i] = <<0>>

\* what RunThreadRT prints when the query of handle i's thread succeeds
EffectiveDiag(i) ==
    <<"Scheduling policy: ", PolicyName(sched[i].policy), "with priority", sched[i].priority>>
QueryFailedDiag == <<"Failed to get scheduling parameters">>

\* C12 as stated: a RealTime thread that has reached its workload has printed
\* either the policy and priority it really runs with or the failure of the
\* query, and a failure of a scheduling request of Start() is never lost: the
\* run ended with an error of Start(), or the thread printed the policy and
\* priority it really runs with.
C12_SchedulingOutcomeReported ==
    \A i \in Constructed :
        (apps[i].kind = "RT" /\ thread[i] \in {"running", "finished"}) =>
            /\ diag[i] \in {EffectiveDiag(i), QueryFailedDiag}
            /\ attr_err[i] => diag[i] = EffectiveDiag(i)

\* C13: with no argument the warning is printed and the run is that of scenario
\* 4: two RealTime FIFO/80 handles as app 1 and app 2 and one Standard handle as
\* app 3; with an argument 0..4 no warning is printed and the run is that of
\* the scenario with that number and of no other.
C13_DefaultAndSuppliedScenario ==
    /\ (Arg = <<>> /\ pc # "args") => err = <<Warning>> /\ exp_id = 4
    /\ (Arg = <<>> /\ apps # <<>>) =>
          /\ apps = << [app_id_ |-> 1, kind |-> "RT", priority_ |-> 80, policy_ |-> SCHED_FIFO],
                       [app_id_ |-> 2, kind |-> "RT", priority_ |-> 80, policy_ |-> SCHED_FIFO],
                       [app_id_ |-> 3, kind |-> "NRT"] >>
          /\ out = <<Description(4)>>
    /\ Arg # <<>> => err = <<>>
    /\ (Arg \in ValidArgs /\ pc # "args") =>
          /\ exp_id = DigitVal(Arg[1])
          /\ out \in {<<>>, <<Description(DigitVal(Arg[1]))>>}
          /\ apps \in {<<>>, Experiment(DigitVal(Arg[1]))}
          /\ pc \notin {"start", "join", "return", "done"} \/ out # <<>>
    /\ (Arg = <<"2">> /\ apps # <<>>) => apps[2].kind = "RT" /\ apps[3].kind = "NRT"
    /\ (Arg = <<"1">> /\ apps # <<>>) => apps[2].kind = "NRT"
    /\ (Arg = <<"3">> /\ apps # <<>>) => apps[1].policy_ = SCHED_RR

\* C13 witness: the run without an argument has warned, run scenario 4 and returned
C13_Witness ==
    /\ Arg = <<>>
    /\ pc = "done"
    /\ err = <<Warning>>
    /\ out = <<Description(4)>>
    /\ Len(reports) = NumApps
    /\ apps[2].kind = "RT"

\* C19 as stated: with no argument, the number the warning ends with is the
\* exp_id main dispatches on, and the description printed is that scenario's.
C19_WarningNamesDispatchedScenario ==
    (Arg = <<>> /\ err # <<>>) =>
        /\ atoi(err[1][2]) = exp_id
        /\ out # <<>> => out[1] = Description(atoi(err[1][2]))

\* C14: under fair scheduling every run ends: main returns unless the run is
\* ended by an error of mlockall, pthread_create or pthread_join; a run of a
\* valid scenario in which main returns has joined and reported all three
\* handles; and the value main returns is 0 on every path.
C14_TerminatesWithExitZero ==
    /\ <>(pc = "done" \/ exception # NoException)
    /\ [](pc = "aborted" => (LockFailed \/ CreationFailed \/ JoinFailed))
    /\ [](exit_code # NoExit <=> pc = "done")
    /\ [](pc = "done" => exit_code = <<0>>)
    /\ []((pc = "done" /\ exp_id \in 0..4) =>
            /\ \A i \in Handles : joinCalls(i) = 1
            /\ ReportedIds = <<1, 2, 3>>)

\* C14 witness: a run of a valid scenario in which every call succeeded has
\* returned 0 with all three handles joined and reported
C14_Witness ==
    /\ pc = "done" /\ exit_code = <<0>>
    /\ exp_id \in 0..4
    /\ memLocked
    /\ \A i \in Handles : join_ret[i] = <<0>> /\ ~attr_err[i] /\ thread[i] = "finished"
    /\ ReportedIds = <<1, 2, 3>>

\* the fields of handle j and the state of its thread
HandleFields(j) ==
    <<thread[j], start_time[j], end_time[j], runCount[j], affinity[j], diag[j],
      sched[j], attr_err[j], join_ret[j]>>

\* C15: a Start(), a Join() or a step of the thread of handle i leaves the
\* configuration of every handle, and the thread, timestamps, workload count,
\* affinity and diagnostics of every other handle, as they were.
C15_HandlesShareNoState ==
    [][ \A i \in Handles :
          (StartRT(i) \/ StartNRT(i) \/ JoinRT(i) \/ JoinNRT(i) \/ ThreadStep(i)) =>
              /\ apps' = apps
              /\ \A j \in Handles \ {i} : HandleFields(j)' = HandleFields(j) ]_vars

\* C15 witness: a Standard handle was started later than the first handle, which
\* is joined already while the thread of the Standard handle still runs
C15_Witness ==
    \E j \in {2, 3} :
        /\ Len(apps) = NumApps /\ apps[j].kind = "NRT"
        /\ start_time[j] # NoTime /\ start_time[j] # start_time[1]
        /\ end_time[1] # NoTime /\ end_time[j] = NoTime
        /\ thread[j] = "running"

\* C16: the workload of a handle is invoked at most once, and exactly once as
\* soon as its thread is past its opening steps (for a RealTime thread the
\* scheduling diagnostic); it is invoked only in a thread that a Start() has
\* created, in a step of that thread, which is no step of main; a thread that
\* was joined with success has run it and ended.
C16_WorkloadOncePerThread ==
    /\ [](\A i \in Handles :
            /\ runCount[i] <= 1
            /\ runCount[i] = 1 <=> thread[i] \in {"running", "finished"}
            /\ runCount[i] = 1 => startCalls(i) = 1 /\ sched[i] # NoSched
            /\ (runCount[i] = 1 /\ apps[i].kind = "RT") => diag[i] # NoDiag
            /\ (runCount[i] = 1 /\ SET_CPU) => affinity[i] = {1}
            /\ Cardinality({k \in DOMAIN finishOrder : finishOrder[k] = i})
                 = (IF thread[i] = "finished" THEN 1 ELSE 0)
            /\ join_ret[i] = <<0>> => runCount[i] = 1 /\ thread[i] = "finished")
    /\ [][ \A i \in Handles :
             runCount'[i] # runCount[i] =>
                 /\ runCount'[i] = runCount[i] + 1
                 /\ thread[i] = "created" /\ thread'[i] = "running"
                 /\ pc' = pc /\ calls' = calls /\ next' = next ]_vars

\* C16 witness: main has returned and each of the three threads has run the
\* workload once and ended
C16_Witness ==
    /\ pc = "done"
    /\ \A i \in Handles : runCount[i] = 1 /\ thread[i] = "finished"
    /\ Len(finishOrder) = NumApps

\* C17: a Start() that main has reached can always be carried out, whatever the
\* threads of the handles started before are doing, and it leaves its own
\* thread created, not yet running; nothing keeps the threads from ending in an
\* order other than that of the handles.
C17_StartDoesNotWait ==
    /\ pc = "start" => ENABLED (StartRT(next) \/ StartNRT(next))
    /\ \A i \in Handles :
          (pc = "start" /\ next = i) => thread[i] = "none" /\ startCalls(i) = 0
    /\ \A i \in Handles :
          thread[i] \in {"created", "running"} => startCalls(i) = 1

\* C17 witness: the third Start() was called while the first two threads were
\* in their workload, and now all three workloads are in progress at once
C17_Witness ==
    /\ pc = "join" /\ next = 1
    /\ calls = << <<"Start", 1>>, <<"Start", 2>>, <<"Start", 3>> >>
    /\ \A i \in Handles : thread[i] = "running" /\ runCount[i] = 1
    /\ finishOrder = <<>>

\* C18 as stated: the start timestamps, then the end timestamps, are in the
\* order of the handles, every start timestamp before every end timestamp, and
\* the end timestamp of handle k exists only when the threads of the handles
\* 1..k have all ended.
C18_TimestampsFollowJoinOrder ==
    /\ \A i, j \in Handles :
          (i < j /\ start_time[j] # NoTime) =>
              start_time[i] # NoTime /\ Micros(start_time[i]) <= Micros(start_time[j])
    /\ \A i, j \in Handles :
          end_time[j] # NoTime =>
              start_time[i] # NoTime /\ Micros(start_time[i]) <= Micros(end_time[j])
    /\ \A i, j \in Handles :
          (i < j /\ end_time[j] # NoTime) =>
              end_time[i] # NoTime /\ Micros(end_time[i]) <= Micros(end_time[j])
    /\ \A k \in Handles :
          end_time[k] # NoTime => \A j \in 1..k : thread[j] = "finished"

====
